---- MODULE Spec2Model ----
(***************************************************************************)
(* app.py: the SSE fan-out (listeners, lst_lock, broadcast, sse_stream and *)
(* its generator gen) and the status write path (api_state_post) of the    *)
(* daily task board, as a state machine of request threads.                *)
(*                                                                         *)
(* Every request runs on its own thread (app.run(threaded=True)), so each  *)
(* handler is cut at the points where it touches shared state: the lock    *)
(* lst_lock, the set listeners, a listener's Queue, the sqlite store.      *)
(*                                                                         *)
(* Spec and FairSpec run the fan-out and the write path.  AnsSpec adds the *)
(* answers of api_state_post, ConvSpec posts two statuses to one row,      *)
(* StoreSpec runs the store alone with the snapshots of api_state_get.     *)
(* ProjSpec and TruthSpec apply the pure functions replace_date_part and   *)
(* mr_truth to bounded sets of strings.                                    *)
(***************************************************************************)
EXTENDS Integers, Sequences, FiniteSets, TLC

\* ------------------------------------------------------------- bounds
NumListeners == 2       \* SSE connections opened during a run
NumThreads   == 2       \* request threads running api_state_post concurrently
MaxPosts     == 3       \* POST /api/state requests during a run
MaxClock     == 1       \* the millisecond clock reads 0..MaxClock
QueueMaxsize == 2       \* Queue(maxsize=1000), scaled down so that a queue fills

Listeners == 1..NumListeners
Threads   == 1..NumThreads

\* ------------------------------------------------------------- data
\* ids of the task templates seeded by seed_if_empty
TaskIds == {1, 2, 3, 4, 5}

SeedDate == "2024-08-06"

\* today_str(): the date of the server's clock, fixed during a run
today_str == "2025-01-01"

\* the task_state rows seed_if_empty inserts
SeedRows ==
  [k \in {SeedDate} \X TaskIds |->
     CASE k[2] = 1 -> [completed |-> 1, reviewed |-> 1]
       [] k[2] = 2 -> [completed |-> 1, reviewed |-> 0]
       [] k[2] = 3 -> [completed |-> 0, reviewed |-> 0]
       [] k[2] = 4 -> [completed |-> 1, reviewed |-> 1]
       [] k[2] = 5 -> [completed |-> 0, reviewed |-> 0]]

\* The JSON bodies the model posts: the status change of the concrete
\* scenario (task 3 completed, not reviewed), a body whose task_id is
\* missing or falsy (0) and one that names no task (7).  date "" stands for
\* a body without a date.
Requests ==
  { [date |-> "2025-01-01", task_id |-> 3, completed |-> TRUE, reviewed |-> FALSE],
    [date |-> "",           task_id |-> 0, completed |-> TRUE, reviewed |-> FALSE],
    [date |-> "2025-01-01", task_id |-> 7, completed |-> TRUE, reviewed |-> FALSE] }

NoReq == [date |-> "", task_id |-> 0, completed |-> FALSE, reviewed |-> FALSE]
NoEv  == [date |-> "", task_id |-> 0, completed |-> 0, reviewed |-> 0, seq |-> 0,
          wid |-> 0, pub |-> 0]

Free == 0                             \* lst_lock held by nobody

VARIABLES
  listeners,    \* the set `listeners`: the queues registered, by connection
  lst_lock,     \* owner of lst_lock: Free or the thread t inside broadcast
  queue,        \* queue[l]: content of the Queue created by connection l
  lpc,          \* lpc[l]: position of sse_stream / gen of connection l
  conn,         \* conn[l]: "open" or "closed" (the peer has gone)
  yielded,      \* yielded[l]: the events gen has yielded at line 124, in order
  ppc,          \* ppc[t]: position of api_state_post on thread t
  preq,         \* preq[t]: the request thread t is serving
  pev,          \* pev[t]: the dict ev built at line 218
  todo,         \* todo[t]: listeners of list(listeners) not yet visited
  dead,         \* dead[t]: the list `dead` of broadcast
  rows,         \* table task_state: (date, task_id) -> row
  now,          \* the last value read off int(time.time()*1000)
  nposts,       \* requests started so far
  raised,       \* an exception has escaped a handler (a 500 response)
  rowWid,       \* history: rowWid[k] is the number of the request that wrote rows[k]
  npub,         \* history: the number of broadcasts that have taken lst_lock
  regAt,        \* history: regAt[l] is npub when l was added to listeners (-1: never)
  deregAt,      \* history: deregAt[l] is npub when l was removed from listeners (-1: never)
  dropped,      \* history: the enqueues that raised queue.Full
  resp,         \* the last answer of api_state_post: request number, task_id, status
  snap,         \* the last answer of api_state_get: date, list, stats
  wlog,         \* history: the status writes committed by requests, in commit order
  proj,         \* replace_date_part: the template, the dates and what the calls gave
  truth         \* mr_truth: the value and what the call gave

vars == << listeners, lst_lock, queue, lpc, conn, yielded, ppc, preq, pev, todo,
           dead, rows, now, nposts, raised, rowWid, npub, regAt, deregAt, dropped,
           resp, snap, wlog, proj, truth >>

lvars == << lpc, conn, yielded >>
pvars == << ppc, preq, pev, todo, dead, nposts, raised >>
hvars == << rowWid, npub, regAt, deregAt, dropped >>
xvars == << resp, snap, wlog, proj, truth >>

\* the program's state: everything but the answers and calls recorded
pgvars == << listeners, lst_lock, queue, lvars, pvars, rows, now, hvars >>

\* no request answered, no function called yet
NoResp  == [n |-> 0, task_id |-> 0, status |-> 0]
NoSnap  == [date |-> "", list |-> << >>, stats |-> << >>]
NoProj  == [pc |-> "none"]
NoTruth == [pc |-> "none"]

NoCall ==
  /\ resp = NoResp
  /\ snap = NoSnap
  /\ wlog = << >>
  /\ proj = NoProj
  /\ truth = NoTruth

\* the state once init_db and seed_if_empty have run and the server is up,
\* the clock standing at c
InitAt(c) ==
  /\ listeners = {}
  /\ lst_lock = Free
  /\ queue = [l \in Listeners |-> <<>>]
  /\ lpc = [l \in Listeners |-> "new"]
  /\ conn = [l \in Listeners |-> "open"]
  /\ yielded = [l \in Listeners |-> <<>>]
  /\ ppc = [t \in Threads |-> "idle"]
  /\ preq = [t \in Threads |-> NoReq]
  /\ pev = [t \in Threads |-> NoEv]
  /\ todo = [t \in Threads |-> {}]
  /\ dead = [t \in Threads |-> {}]
  /\ rows = SeedRows
  /\ now = c
  /\ nposts = 0
  /\ raised = FALSE
  /\ rowWid = [k \in DOMAIN SeedRows |-> 0]
  /\ npub = 0
  /\ regAt = [l \in Listeners |-> -1]
  /\ deregAt = [l \in Listeners |-> -1]
  /\ dropped = {}

Init == InitAt(0) /\ NoCall

\* the same, the clock standing at its last value: every seq of the run
\* reads the same millisecond
InitLate == InitAt(MaxClock) /\ NoCall

\* ------------------------------------------------------------- helpers
\* `not task_id` (line 201): a missing task_id, None or 0
\* (FalsyNone: a faulty variant that lets every task_id through)
FalsyNone(task_id) == FALSE
Falsy(task_id) == task_id = 0

\* `1 if data.get(..) else 0` (lines 203-204)
Bit(b) == IF b THEN 1 ELSE 0

\* `data.get("date") or today_str()` (line 199)
ReqDate(d) == IF d = "" THEN today_str ELSE d

\* `SELECT 1 FROM tasks WHERE id=?` (lines 208-209)
\* (TaskExistsAny: a faulty variant that finds every task)
TaskExistsAny(task_id) == TRUE
TaskExists(task_id) == task_id \in TaskIds

\* INSERT OR REPLACE INTO task_state ... ; con.commit() (lines 211-215)
\* (CommitLost: a faulty variant, the write is not committed)
CommitLost(rs, key, row) == rs
Commit(rs, key, row) ==
  [k \in DOMAIN rs \cup {key} |-> IF k = key THEN row ELSE rs[k]]

\* the dict ev of lines 218-220.  wid and pub are no fields of the dict:
\* wid is the number of the request that built it, pub the number of its
\* broadcast, stamped when broadcast takes lst_lock
MkEvent(r, seq, wid) ==
  [date |-> ReqDate(r.date), task_id |-> r.task_id,
   completed |-> Bit(r.completed), reviewed |-> Bit(r.reviewed),
   seq |-> seq, wid |-> wid, pub |-> 0]

\* Queue.put_nowait on a Queue(maxsize=QueueMaxsize): raises queue.Full when
\* the queue holds maxsize items, appends otherwise (lines 106, 115)
\* (QFullEarly, put_front: faulty variants, a queue one slot short and a
\* LIFO queue)
QFullEarly(q) == Len(q) >= QueueMaxsize - 1
QFull(q) == Len(q) >= QueueMaxsize

put_front(q, ev) == << ev >> \o q
put_nowait(q, ev) == Append(q, ev)

\* `except Exception` (line 107) catches whatever put_nowait raises
\* (CatchesFaultOnly: a faulty variant that lets queue.Full through)
CatchesFaultOnly(exc) == exc # "Full"
Catches(exc) == TRUE

\* `list(listeners)` (line 104): the queues the pass visits
\* (TargetsButOne: a faulty variant that skips one of them)
TargetsButOne(ls) == IF ls = {} THEN ls ELSE ls \ {CHOOSE l \in ls : TRUE}
BcTargets(ls) == ls

\* listeners.discard(q) (lines 110, 129)
discard(ls, l) == ls \ {l}

\* ------------------------------------------------------------- api_state_post
\* lines 198-202 and 206-210: a request with a falsy task_id is answered
\* 400, one with a task_id that is not in tasks 404 (tasks never changes
\* after seeding, so the SELECT of line 208 reads the same at any moment);
\* neither writes, neither broadcasts
Rejected(r) == Falsy(r.task_id) \/ ~TaskExists(r.task_id)

PostReject(t, r) ==
  /\ ppc[t] = "idle"
  /\ nposts < MaxPosts
  /\ Rejected(r)
  /\ nposts' = nposts + 1
  /\ UNCHANGED << listeners, lst_lock, queue, lvars, ppc, preq, pev, todo, dead,
                  rows, now, raised, hvars >>

\* lines 198-215: a request that passes both checks: INSERT OR REPLACE and
\* commit
PostWrite(t, r) ==
  /\ ppc[t] = "idle"
  /\ nposts < MaxPosts
  /\ ~Rejected(r)
  /\ nposts' = nposts + 1
  /\ preq' = [preq EXCEPT ![t] = r]
  /\ LET key == << ReqDate(r.date), r.task_id >>
         row == [completed |-> Bit(r.completed), reviewed |-> Bit(r.reviewed)]
     IN /\ rows' = Commit(rows, key, row)
        /\ rowWid' = [k \in DOMAIN rowWid \cup {key} |->
                         IF k = key THEN nposts + 1 ELSE rowWid[k]]
  /\ pev' = [pev EXCEPT ![t] = [NoEv EXCEPT !.wid = nposts + 1]]
  /\ ppc' = [ppc EXCEPT ![t] = "mkev"]
  /\ UNCHANGED << listeners, lst_lock, queue, lvars, todo, dead, now, raised,
                  npub, regAt, deregAt, dropped >>

\* lines 218-220: ev is built; seq is read off the clock, which has not
\* gone back since it was last read
PostMkEv(t) ==
  /\ ppc[t] = "mkev"
  /\ \E c \in now..MaxClock :
       /\ now' = c
       /\ pev' = [pev EXCEPT ![t] = MkEvent(preq[t], c, pev[t].wid)]
  /\ ppc' = [ppc EXCEPT ![t] = "bc_lock"]
  /\ UNCHANGED << listeners, lst_lock, queue, lvars, preq, todo, dead, rows,
                  nposts, raised, hvars >>

\* ------------------------------------------------------------- broadcast
\* lines 102-104: lst_lock is taken, dead = [], list(listeners) is copied
BcAcquire(t) ==
  /\ ppc[t] = "bc_lock"
  /\ lst_lock = Free
  /\ lst_lock' = t
  /\ todo' = [todo EXCEPT ![t] = BcTargets(listeners)]
  /\ dead' = [dead EXCEPT ![t] = {}]
  /\ npub' = npub + 1
  /\ pev' = [pev EXCEPT ![t].pub = npub + 1]
  /\ ppc' = [ppc EXCEPT ![t] = "bc_put"]
  /\ UNCHANGED << listeners, queue, lvars, preq, rows, now, nposts, raised,
                  rowWid, regAt, deregAt, dropped >>

\* lines 104-108: one turn of the loop, for the queue of listener l (a set
\* is iterated in no particular order).  An exception the except clause
\* does not catch leaves the with block, which releases lst_lock, and
\* fails the request.
BcPut(t, l) ==
  /\ ppc[t] = "bc_put"
  /\ l \in todo[t]
  /\ IF ~QFull(queue[l])
       THEN /\ queue' = [queue EXCEPT ![l] = put_nowait(@, pev[t])]
            /\ todo' = [todo EXCEPT ![t] = @ \ {l}]
            /\ UNCHANGED << lst_lock, dead, dropped, ppc, preq, pev, raised >>
       ELSE IF Catches("Full")
         THEN /\ dead' = [dead EXCEPT ![t] = @ \cup {l}]
              /\ dropped' = dropped \cup {<< pev[t].pub, l, Len(queue[l]) >>}
              /\ todo' = [todo EXCEPT ![t] = @ \ {l}]
              /\ UNCHANGED << lst_lock, queue, ppc, preq, pev, raised >>
         ELSE /\ lst_lock' = Free
              /\ raised' = TRUE
              /\ ppc' = [ppc EXCEPT ![t] = "idle"]
              /\ preq' = [preq EXCEPT ![t] = NoReq]
              /\ pev' = [pev EXCEPT ![t] = NoEv]
              /\ todo' = [todo EXCEPT ![t] = {}]
              /\ UNCHANGED << queue, dead, dropped >>
  /\ UNCHANGED << listeners, lvars, rows, now, nposts, rowWid, npub, regAt, deregAt >>

\* lines 109-110: the dead queues are discarded, lst_lock is released,
\* broadcast returns and the request is answered {"ok": true} (line 222)
RECURSIVE DiscardAll(_, _)
DiscardAll(ls, ds) ==
  IF ds = {} THEN ls
  ELSE LET d == CHOOSE x \in ds : TRUE IN DiscardAll(discard(ls, d), ds \ {d})

BcFinish(t) ==
  /\ ppc[t] = "bc_put"
  /\ todo[t] = {}
  /\ listeners' = DiscardAll(listeners, dead[t])
  /\ lst_lock' = Free
  /\ dead' = [dead EXCEPT ![t] = {}]
  /\ ppc' = [ppc EXCEPT ![t] = "idle"]
  /\ preq' = [preq EXCEPT ![t] = NoReq]
  /\ pev' = [pev EXCEPT ![t] = NoEv]
  /\ deregAt' = [l \in Listeners |->
                   IF l \in listeners /\ l \notin listeners' THEN npub ELSE deregAt[l]]
  /\ UNCHANGED << queue, lvars, todo, rows, now, nposts, raised, rowWid, npub,
                  regAt, dropped >>

\* ------------------------------------------------------------- sse_stream
\* lines 115-117 and 131-134: q = Queue(maxsize); with lst_lock held,
\* listeners.add(q); the Response wrapping gen() is returned; gen has not
\* run yet
SseRegister(l) ==
  /\ lpc[l] = "new"
  /\ lst_lock = Free
  /\ listeners' = listeners \cup {l}
  /\ lpc' = [lpc EXCEPT ![l] = "greet"]
  /\ regAt' = [regAt EXCEPT ![l] = npub]
  /\ UNCHANGED << lst_lock, queue, conn, yielded, pvars, rows, now, rowWid, npub,
                  deregAt, dropped >>

\* line 120: gen yields ": connected", the server writes it (a write to a
\* peer that has just gone can still succeed) and resumes gen, which enters
\* the try block and blocks in q.get()
GenGreet(l) ==
  /\ lpc[l] = "greet"
  /\ lpc' = [lpc EXCEPT ![l] = "get"]
  /\ UNCHANGED << listeners, lst_lock, queue, conn, yielded, pvars, rows, now, hvars >>

\* line 120: the peer has gone and the server closes gen while it is
\* suspended at its first yield (or before it ever ran): GeneratorExit is
\* raised at line 120, which is outside the try block of lines 121-129
GenCloseAtGreet(l) ==
  /\ lpc[l] = "greet"
  /\ conn[l] = "closed"
  /\ lpc' = [lpc EXCEPT ![l] = "closed"]
  /\ UNCHANGED << listeners, lst_lock, queue, conn, yielded, pvars, rows, now, hvars >>

\* lines 122-124: q.get() returns the oldest event (it blocks while the
\* queue is empty), gen yields it, the server writes it and resumes gen,
\* which blocks in q.get() again
GenGet(l) ==
  /\ lpc[l] = "get"
  /\ queue[l] # <<>>
  /\ yielded' = [yielded EXCEPT ![l] = Append(@, Head(queue[l]))]
  /\ queue' = [queue EXCEPT ![l] = Tail(@)]
  /\ UNCHANGED << listeners, lst_lock, lpc, conn, pvars, rows, now, hvars >>

\* lines 123-127: as GenGet, but the peer has gone and the write fails: the
\* server closes gen, GeneratorExit is raised at the yield of line 124 and
\* control reaches finally
GenExit(l) ==
  /\ lpc[l] = "get"
  /\ queue[l] # <<>>
  /\ conn[l] = "closed"
  /\ yielded' = [yielded EXCEPT ![l] = Append(@, Head(queue[l]))]
  /\ queue' = [queue EXCEPT ![l] = Tail(@)]
  /\ lpc' = [lpc EXCEPT ![l] = "finally"]
  /\ UNCHANGED << listeners, lst_lock, conn, pvars, rows, now, hvars >>

\* lines 128-129: with lst_lock held, listeners.discard(q); gen is finished
GenFinally(l) ==
  /\ lpc[l] = "finally"
  /\ lst_lock = Free
  /\ listeners' = discard(listeners, l)
  /\ lpc' = [lpc EXCEPT ![l] = "closed"]
  /\ deregAt' = [deregAt EXCEPT ![l] =
                   IF l \in listeners /\ l \notin listeners' THEN npub ELSE @]
  /\ UNCHANGED << lst_lock, queue, conn, yielded, pvars, rows, now, rowWid, npub,
                  regAt, dropped >>

\* ------------------------------------------------------------- environment
\* the peer of connection l closes it
ClientClose(l) ==
  /\ lpc[l] \notin {"new", "closed"}
  /\ conn[l] = "open"
  /\ conn' = [conn EXCEPT ![l] = "closed"]
  /\ UNCHANGED << listeners, lst_lock, queue, lpc, yielded, pvars, rows, now, hvars >>

\* ------------------------------------------------------------- specification
PostStep(t) ==
  \/ PostMkEv(t)
  \/ BcAcquire(t)
  \/ \E l \in Listeners : BcPut(t, l)
  \/ BcFinish(t)

ListenerStep(l) ==
  \/ GenGreet(l)
  \/ GenCloseAtGreet(l)
  \/ GenGet(l)
  \/ GenExit(l)
  \/ GenFinally(l)

\* the handlers of the fan-out and of the status write; they record no
\* answer and call no function of xvars
Next ==
  \/ \E t \in Threads, r \in Requests : PostReject(t, r) /\ UNCHANGED xvars
  \/ \E t \in Threads, r \in Requests : PostWrite(t, r) /\ UNCHANGED xvars
  \/ \E t \in Threads : PostMkEv(t) /\ UNCHANGED xvars
  \/ \E t \in Threads : BcAcquire(t) /\ UNCHANGED xvars
  \/ \E t \in Threads, l \in Listeners : BcPut(t, l) /\ UNCHANGED xvars
  \/ \E t \in Threads : BcFinish(t) /\ UNCHANGED xvars
  \/ \E l \in Listeners : SseRegister(l) /\ UNCHANGED xvars
  \/ \E l \in Listeners : GenGreet(l) /\ UNCHANGED xvars
  \/ \E l \in Listeners : GenCloseAtGreet(l) /\ UNCHANGED xvars
  \/ \E l \in Listeners : GenGet(l) /\ UNCHANGED xvars
  \/ \E l \in Listeners : GenExit(l) /\ UNCHANGED xvars
  \/ \E l \in Listeners : GenFinally(l) /\ UNCHANGED xvars
  \/ \E l \in Listeners : ClientClose(l) /\ UNCHANGED xvars

Spec == Init /\ [][Next]_vars

\* Threads are scheduled: a handler that can take its next step takes it.
\* Requests, connections and disconnections are the environment's.  No
\* action is enabled or disabled by what the clock reads, and seq is only
\* carried along: the runs start with the clock at its last value, so that
\* all of them read the same millisecond.
FairSpec ==
  /\ InitLate
  /\ [][Next]_vars
  /\ \A t \in Threads : WF_vars(PostStep(t) /\ UNCHANGED xvars)
  /\ \A l \in Listeners : WF_vars(ListenerStep(l) /\ UNCHANGED xvars)

\* ------------------------------------------------------------- properties
\* what listener l has been handed so far: yielded, then still queued
received(l) == yielded[l] \o queue[l]

\* how often broadcast number p occurs in a sequence of events
Count(sq, p) == Cardinality({ i \in 1..Len(sq) : sq[i].pub = p })

\* l was in listeners when broadcast number p took lst_lock
RegisteredAt(l, p) ==
  /\ regAt[l] >= 0
  /\ regAt[l] < p
  /\ deregAt[l] = -1 \/ p <= deregAt[l]

\* broadcast number p has returned
Completed(p) ==
  /\ p \in 1..npub
  /\ \A t \in Threads : ~(ppc[t] = "bc_put" /\ pev[t].pub = p)

\* broadcast number p found the queue of l full
DroppedFor(l, p) == \E n \in 0..(QueueMaxsize + 1) : << p, l, n >> \in dropped

\* the broadcast in progress has not reached the queue of l yet
Pending(l) == \E t \in Threads : ppc[t] = "bc_put" /\ l \in todo[t]

\* C1: fan-out targets exactly the listeners registered at publish time.
\* A broadcast puts its event at most once on any queue and never on the
\* queue of a listener that was not in listeners when it took lst_lock;
\* once it has returned, every listener that was registered then holds the
\* event exactly once, unless its queue was full (and only then it is
\* dropped); all listeners are handed the same event.
C1_FanOutExact ==
  /\ \A d \in dropped : d[3] = QueueMaxsize
  /\ \A l \in Listeners : \A p \in 1..npub :
       LET n == Count(received(l), p)
       IN /\ n <= 1
          /\ ~RegisteredAt(l, p) => n = 0
          /\ (Completed(p) /\ RegisteredAt(l, p)) => (n = 1 <=> ~DroppedFor(l, p))
  /\ \A l, m \in Listeners :
       \A i \in 1..Len(received(l)) : \A j \in 1..Len(received(m)) :
         received(l)[i].pub = received(m)[j].pub => received(l)[i] = received(m)[j]

\* listeners 1 and 2 both got the first event; 1 deregistered before the
\* second publish, which reached 2 only
C1_Witness ==
  /\ Completed(1) /\ Completed(2)
  /\ Count(received(1), 1) = 1 /\ Count(received(2), 1) = 1
  /\ deregAt[1] = 1
  /\ Count(received(1), 2) = 0 /\ Count(received(2), 2) = 1

\* C2: a listener whose queue is full loses only that event: broadcast does
\* not remove it from listeners, so a listener that is still connected
\* (gen has not finished and is not on its way out) stays registered and
\* gets the events published later.
C2_LiveListenerStaysRegistered ==
  \A l \in Listeners : lpc[l] \in {"greet", "get"} => l \in listeners

\* C3: lossless delivery within capacity.  Let N be the number of
\* broadcasts that took lst_lock while l was registered.  If N is at most
\* the queue's capacity, l has been handed exactly those N events, each
\* once, in publish order (but for the one broadcast in progress that has
\* not reached l's queue yet): none is dropped, however the gets interleave
\* with the puts.  And gen, scheduled fairly, yields whatever is queued: it
\* does not stay in its loop with a queue that never empties.
PublishedFor(l) ==
  IF regAt[l] < 0 THEN 0
  ELSE (IF deregAt[l] = -1 THEN npub ELSE deregAt[l]) - regAt[l]

HandedAllInOrder ==
  \A l \in Listeners :
    (regAt[l] >= 0 /\ PublishedFor(l) <= QueueMaxsize) =>
      LET k == PublishedFor(l) - (IF Pending(l) /\ l \in listeners THEN 1 ELSE 0)
      IN /\ Len(received(l)) = k
         /\ \A i \in 1..k : received(l)[i].pub = regAt[l] + i

C3_LosslessWithinCapacity ==
  /\ []HandedAllInOrder
  /\ \A l \in Listeners :
       (lpc[l] = "get" /\ queue[l] # <<>>) ~> (queue[l] = <<>> \/ lpc[l] # "get")

\* a listener has yielded all of QueueMaxsize events published for it, after
\* taking the first from its queue before the last was put
C3_Witness ==
  \E l \in Listeners :
    /\ PublishedFor(l) = QueueMaxsize
    /\ Len(yielded[l]) = QueueMaxsize
    /\ queue[l] = <<>>
    /\ l \in listeners

\* C4: lossy but uncorrupted.  What a listener is handed is a subsequence
\* of the publish order: broadcast numbers strictly increase along it (no
\* duplicate, no reordering) and each is a broadcast that happened; a queue
\* never holds more than its capacity; a listener that has consumed nothing
\* holds at most capacity events, however many were published.
C4_SubsequenceWithinCapacity ==
  \A l \in Listeners :
    /\ \A i \in 1..Len(received(l)) : received(l)[i].pub \in 1..npub
    /\ \A i, j \in 1..Len(received(l)) :
         i < j => received(l)[i].pub < received(l)[j].pub
    /\ Len(queue[l]) <= QueueMaxsize
    /\ yielded[l] = <<>> => Len(received(l)) <= QueueMaxsize

\* more events than the capacity were published for a listener that never
\* consumed: it holds the first QueueMaxsize of them
C4_Witness ==
  \E l \in Listeners :
    /\ regAt[l] = 0
    /\ npub > QueueMaxsize /\ Completed(npub)
    /\ yielded[l] = <<>>
    /\ Len(queue[l]) = QueueMaxsize
    /\ DroppedFor(l, npub)

\* C5: broadcast never blocks on a consumer and never fails its caller.
\* No exception ever escapes a handler; under fair scheduling a thread that
\* has called broadcast (it waits for lst_lock or runs the pass) returns,
\* whatever the listeners do, full queues and listeners that never consume
\* included; a broadcast with no listener registered changes neither the
\* registry nor any queue and keeps nothing.
InBroadcast == {"bc_lock", "bc_put"}

C5_BroadcastReturns ==
  /\ [](~raised)
  /\ \A t \in Threads : (ppc[t] \in InBroadcast) ~> (ppc[t] = "idle")
  /\ [][\A t \in Threads :
          (listeners = {} /\ ppc[t] \in InBroadcast /\ ppc'[t] # ppc[t]) =>
            /\ listeners' = {}
            /\ queue' = queue
            /\ dropped' = dropped
            /\ todo'[t] = {} /\ dead'[t] = {}]_vars

\* a broadcast that met the full queue of a listener stalled before its
\* first get has returned
C5_Witness ==
  /\ \A t \in Threads : ppc[t] = "idle"
  /\ \E l \in Listeners : DroppedFor(l, npub) /\ lpc[l] = "greet"

\* C6: after the connection of a listener is closed, the listener leaves
\* its queue wait and is eventually removed from listeners, with no further
\* publish needed, also when the connection closes before the stream was
\* read.
C6_ClosedListenerLeaves ==
  \A l \in Listeners : (conn[l] = "closed") ~> (l \notin listeners)

\* C7: write-then-publish.  Whenever an event has been handed to broadcast
\* or to a listener, the row of its (date, task_id) is in task_state and
\* was written by the request that built the event or by a later one; in
\* the first case it holds the event's completed and reviewed.
Reflected(e) ==
  LET k == << e.date, e.task_id >>
  IN /\ k \in DOMAIN rows
     /\ rowWid[k] >= e.wid
     /\ rowWid[k] = e.wid => rows[k] = [completed |-> e.completed, reviewed |-> e.reviewed]

C7_WriteThenPublish ==
  /\ \A l \in Listeners : \A i \in 1..Len(received(l)) : Reflected(received(l)[i])
  /\ \A t \in Threads : ppc[t] \in InBroadcast => Reflected(pev[t])

\* a listener has been yielded an event whose row a later request has
\* overwritten since, and holds one whose row is still that of its write
C7_Witness ==
  \E l \in Listeners :
    /\ \E i \in 1..Len(yielded[l]) :
         rowWid[<< yielded[l][i].date, yielded[l][i].task_id >>] > yielded[l][i].wid
    /\ \E i \in 1..Len(queue[l]) :
         rowWid[<< queue[l][i].date, queue[l][i].task_id >>] = queue[l][i].wid

\* C8: seq is non-decreasing in publish order, hence along what every
\* listener is handed, requests running concurrently included.
C8_SeqNonDecreasing ==
  \A l \in Listeners : \A i, j \in 1..Len(received(l)) :
    i < j => received(l)[i].seq <= received(l)[j].seq

\* C9: lst_lock is held for a set insert, remove or copy only: no event is
\* put on a queue while lst_lock is held.
C9_NoEnqueueUnderLock ==
  [][\A l \in Listeners : Len(queue'[l]) > Len(queue[l]) => lst_lock = Free]_vars

\* C10: deregistration happens exactly once per listener lifecycle: once
\* gen has finished, however it ended, its queue is not in listeners.
C10_FinishedListenerDeregistered ==
  \A l \in Listeners : lpc[l] = "closed" => l \notin listeners

\* ------------------------------------------------------------- str
\* A Python str is modelled as the sequence of its characters, a character
\* as a string of length one.  "U+662F" and "U+5426" stand for the
\* characters of must_review: U+662F (yes) and U+5426 (no).
DigitChars == << "0", "1", "2", "3", "4", "5", "6", "7", "8", "9" >>
Digits == { DigitChars[i] : i \in DOMAIN DigitChars }
DigitVal(c) == (CHOOSE i \in DOMAIN DigitChars : DigitChars[i] = c) - 1

\* what str.strip() removes
Whitespace == { " ", "\t", "\n" }

RECURSIVE lstrip(_)
lstrip(s) == IF s # << >> /\ Head(s) \in Whitespace THEN lstrip(Tail(s)) ELSE s

RECURSIVE rstrip(_)
rstrip(s) ==
  IF s # << >> /\ s[Len(s)] \in Whitespace THEN rstrip(SubSeq(s, 1, Len(s) - 1)) ELSE s

\* str.strip() (lines 31, 34, 37, 42)
\* (strip_none: a faulty variant that trims nothing)
strip_none(s) == s
strip(s) == rstrip(lstrip(s))

\* the literals of the source
Str_2024_08_06 == << "2", "0", "2", "4", "-", "0", "8", "-", "0", "6" >>
Str_2025_01_01 == << "2", "0", "2", "5", "-", "0", "1", "-", "0", "1" >>
Str_2024_02_29 == << "2", "0", "2", "4", "-", "0", "2", "-", "2", "9" >>

\* ------------------------------------------------------------- replace_date_part
\* `ts.split(" ", 1)[1] if " " in ts else ts` (line 32)
\* (time_part_whole: a faulty variant that never splits)
time_part_whole(ts) == ts
time_part(ts) ==
  IF \E i \in DOMAIN ts : ts[i] = " "
    THEN LET i == CHOOSE i \in DOMAIN ts :
                    ts[i] = " " /\ \A j \in 1..(i - 1) : ts[j] # " "
         IN SubSeq(ts, i + 1, Len(ts))
    ELSE ts

\* the texts between the colons of s
RECURSIVE SplitColon(_)
SplitColon(s) ==
  IF \E i \in DOMAIN s : s[i] = ":"
    THEN LET i == CHOOSE i \in DOMAIN s :
                    s[i] = ":" /\ \A j \in 1..(i - 1) : s[j] # ":"
         IN << SubSeq(s, 1, i - 1) >> \o SplitColon(SubSeq(s, i + 1, Len(s)))
    ELSE << s >>

\* the value of a text of one or two digits
FieldVal(f) ==
  IF Len(f) = 1 THEN DigitVal(f[1]) ELSE 10 * DigitVal(f[1]) + DigitVal(f[2])

\* a directive %H, %M or %S of strptime matches one or two ASCII digits
\* (2[0-3]|[0-1]\d|\d for %H, [0-5]\d|\d for %M; 6[0-1]|[0-5]\d|\d for %S,
\* of which datetime refuses 60 and 61 with a ValueError as well)
FieldOk(f, hi) ==
  /\ Len(f) \in {1, 2}
  /\ \A i \in DOMAIN f : f[i] \in Digits
  /\ FieldVal(f) <= hi

\* the largest value of each field of a format
Limits(fmt) == IF fmt = "%H:%M:%S" THEN << 23, 59, 59 >> ELSE << 23, 59 >>

\* datetime.strptime(s, fmt).time() for the formats "%H:%M:%S" and "%H:%M"
\* (lines 34, 37): the time as <<hour, minute[, second]>>, or a ValueError
\* when s does not match fmt or data remains unconverted
strptime(s, fmt) ==
  LET f == SplitColon(s)
      lim == Limits(fmt)
  IN IF Len(f) = Len(lim) /\ \A i \in DOMAIN f : FieldOk(f[i], lim[i])
       THEN [exc |-> "", t |-> [i \in DOMAIN f |-> FieldVal(f[i])]]
       ELSE [exc |-> "ValueError", t |-> << >>]

\* %H, %M and %S of strftime: two digits, zero padded
Fmt2(n) == << DigitChars[(n \div 10) + 1], DigitChars[(n % 10) + 1] >>

\* t_obj.strftime(fmt) (lines 35, 38)
\* (strftime_hm: a faulty variant that never renders the seconds)
strftime_hm(t, fmt) == Fmt2(t[1]) \o << ":" >> \o Fmt2(t[2])
strftime(t, fmt) ==
  IF fmt = "%H:%M:%S"
    THEN Fmt2(t[1]) \o << ":" >> \o Fmt2(t[2]) \o << ":" >> \o Fmt2(t[3])
    ELSE Fmt2(t[1]) \o << ":" >> \o Fmt2(t[2])

\* what a call gives: the str returned, or the exception that leaves it
Ret(s) == [exc |-> "", ret |-> s]
Raise(e) == [exc |-> e, ret |-> << >>]

\* lines 26-39
replace_date_part(ts, to_date) ==
  LET tod == strip(time_part(strip(ts)))
      hms == strptime(tod, "%H:%M:%S")
      hm  == strptime(tod, "%H:%M")
  IN IF hms.exc = ""
       THEN Ret(to_date \o << " " >> \o strftime(hms.t, "%H:%M:%S"))
       ELSE IF hm.exc = ""
         THEN Ret(to_date \o << " " >> \o strftime(hm.t, "%H:%M"))
         ELSE Raise(hm.exc)

\* ---- the templates and dates replace_date_part is called with
\* texts of a field of a time of day: two digits, one digit, out of range,
\* too long, empty, no digit
FieldTexts ==
  { << "0", "8" >>, << "0", "0" >>, << "2", "3" >>, << "5", "9" >>, << "3", "0" >>,
    << "8" >>, << "2", "4" >>, << "6", "0" >>, << "0", "0", "0" >>, << >>, << "x" >> }

\* texts of a time of day: h:m and h:m:s over FieldTexts
TimeTexts ==
  { h \o << ":" >> \o m : h \in FieldTexts, m \in FieldTexts }
    \cup { h \o << ":" >> \o m \o << ":" >> \o x :
             h \in {<< "0", "8" >>, << "2", "3" >>, << "8" >>, << "2", "4" >>},
             m \in FieldTexts, x \in FieldTexts }
    \cup { << "0", "8", "0", "0" >> }

\* what stands before the time of day in a template: nothing, or a date and
\* the separating space (tasks.start and tasks.end hold 'YYYY-MM-DD HH:MM')
Prefixes ==
  { << >>, Str_2024_08_06 \o << " " >>, Str_2024_02_29 \o << " " >>,
    << " " >> \o Str_2024_08_06 \o << " ", " " >> }

\* the dates a template is projected onto (req_date, line 144)
Dates == { Str_2025_01_01, Str_2024_02_29 }

ProjInit ==
  /\ InitAt(0)
  /\ resp = NoResp /\ snap = NoSnap /\ wlog = << >> /\ truth = NoTruth
  /\ \E p \in Prefixes, t \in TimeTexts :
       proj = [pc |-> "template", prefix |-> p, tod |-> t,
               d1 |-> << >>, r1 |-> Raise(""), d2 |-> << >>, r2 |-> Raise("")]

\* the template of the call: prefix, then time of day
Template == proj.prefix \o proj.tod

\* lines 152-153: a template is projected onto the requested date
Project(d) ==
  /\ proj.pc = "template"
  /\ proj' = [proj EXCEPT !.pc = "projected", !.d1 = d,
                          !.r1 = replace_date_part(Template, d)]
  /\ UNCHANGED << pgvars, resp, snap, wlog, truth >>

\* the str the first call returned is projected again
Reproject(d) ==
  /\ proj.pc = "projected"
  /\ proj.r1.exc = ""
  /\ proj' = [proj EXCEPT !.pc = "reprojected", !.d2 = d,
                          !.r2 = replace_date_part(proj.r1.ret, d)]
  /\ UNCHANGED << pgvars, resp, snap, wlog, truth >>

ProjNext ==
  \/ \E d \in Dates : Project(d)
  \/ \E d \in Dates : Reproject(d)

ProjSpec == ProjInit /\ [][ProjNext]_vars

\* a time of day in the format HH:MM: exactly two digits each, 00..23 and
\* 00..59
TwoDigits(s, i, hi) ==
  /\ s[i] \in Digits /\ s[i + 1] \in Digits
  /\ 10 * DigitVal(s[i]) + DigitVal(s[i + 1]) <= hi

ValidHM(s) ==
  /\ Len(s) = 5
  /\ s[3] = ":"
  /\ TwoDigits(s, 1, 23) /\ TwoDigits(s, 4, 59)

\* a time of day in the format HH:MM:SS
ValidHMS(s) ==
  /\ Len(s) = 8
  /\ s[3] = ":" /\ s[6] = ":"
  /\ TwoDigits(s, 1, 23) /\ TwoDigits(s, 4, 59) /\ TwoDigits(s, 7, 59)

Projected == proj.pc \in {"projected", "reprojected"}

\* C13: replace_date_part(ts, d) returns d, one space and the time of day
\* of ts as it was given: for a valid HH:MM template that is d, a space and
\* the five characters of the time (no seconds); for a valid HH:MM:SS
\* template d, a space and the eight characters of the time (seconds, 00
\* included); whatever stands before the time of day in ts (no date, a
\* date, another date, more spaces) changes nothing.
C13_ProjectionKeepsTimeOfDay ==
  (Projected /\ (ValidHM(proj.tod) \/ ValidHMS(proj.tod))) =>
    /\ proj.r1 = Ret(proj.d1 \o << " " >> \o proj.tod)
    /\ ValidHM(proj.tod) => Len(proj.r1.ret) = Len(proj.d1) + 6
    /\ ValidHMS(proj.tod) => Len(proj.r1.ret) = Len(proj.d1) + 9

\* '2024-08-06 08:00:00' has been projected onto 2025-01-01 and the seconds
\* 00 are in the result
C13_Witness ==
  /\ Projected
  /\ proj.prefix = Str_2024_08_06 \o << " " >>
  /\ proj.tod = << "0", "8", ":", "0", "0", ":", "0", "0" >>
  /\ proj.d1 = Str_2025_01_01
  /\ proj.r1.ret = Str_2025_01_01 \o << " ", "0", "8", ":", "0", "0", ":", "0", "0" >>

\* C14: projection is date-substitution-pure: projecting what a projection
\* onto D1 returned onto D2 gives what projecting the template onto D2
\* gives, D1 = D2 (projecting twice onto the same date) included.
C14_ReprojectionPure ==
  proj.pc = "reprojected" =>
    /\ proj.r2 = replace_date_part(Template, proj.d2)
    /\ proj.r2.exc = ""
    /\ proj.d2 = proj.d1 => proj.r2 = proj.r1

\* a template without a date, projected onto one date and then another
C14_Witness ==
  /\ proj.pc = "reprojected"
  /\ proj.prefix = << >>
  /\ proj.tod = << "0", "8", ":", "0", "0", ":", "3", "0" >>
  /\ proj.d1 = Str_2024_02_29 /\ proj.d2 = Str_2025_01_01
  /\ proj.r2.ret = Str_2025_01_01 \o << " " >> \o proj.tod

\* C15: for a template whose time of day is neither HH:MM:SS nor HH:MM,
\* replace_date_part fails and returns no string: it never repairs the
\* input.
C15_MalformedTimeOfDayFails ==
  (Projected /\ ~ValidHM(proj.tod) /\ ~ValidHMS(proj.tod)) => proj.r1.exc # ""

\* ------------------------------------------------------------- mr_truth
UpperChars == << "A", "B", "C", "D", "E", "F", "G", "H", "I", "J", "K", "L", "M",
                 "N", "O", "P", "Q", "R", "S", "T", "U", "V", "W", "X", "Y", "Z" >>
LowerChars == << "a", "b", "c", "d", "e", "f", "g", "h", "i", "j", "k", "l", "m",
                 "n", "o", "p", "q", "r", "s", "t", "u", "v", "w", "x", "y", "z" >>

\* str.lower() of one character: a cased letter becomes its lower case,
\* every other character (digits, whitespace, U+662F, U+5426) stays
LowerOf(c) ==
  IF \E i \in DOMAIN UpperChars : UpperChars[i] = c
    THEN LowerChars[CHOOSE i \in DOMAIN UpperChars : UpperChars[i] = c]
    ELSE c

\* str.lower() (line 42)
\* (lower_none: a faulty variant that keeps the case)
lower_none(s) == s
lower(s) == [i \in DOMAIN s |-> LowerOf(s[i])]

\* the tuple ("是","true","1","y","yes") of line 42
TruthWords ==
  { << "U+662F" >>, << "t", "r", "u", "e" >>, << "1" >>, << "y" >>, << "y", "e", "s" >> }

\* line 42; str(v) is v for a str
mr_truth(v) == lower(strip(v)) \in TruthWords

\* ---- the values mr_truth is called with
\* lower-case words: the five of the tuple, the false values the spec names
\* (U+5426, the empty string, 0, no) and near misses
Words ==
  TruthWords \cup
  { << "U+5426" >>, << >>, << "0" >>, << "n", "o" >>, << "n" >>, << "y", "e" >>,
    << "y", "e", "s", "1" >>, << "y", " ", "e", "s" >>, << "t", "r", "u" >>,
    << "f", "a", "l", "s", "e" >>, << "o", "n" >>, << "2" >> }

UpperOf(c) ==
  IF \E i \in DOMAIN LowerChars : LowerChars[i] = c
    THEN UpperChars[CHOOSE i \in DOMAIN LowerChars : LowerChars[i] = c]
    ELSE c

\* a is b but for the case of its letters (b in lower case)
SameButCase(a, b) ==
  /\ Len(a) = Len(b)
  /\ \A i \in DOMAIN a : a[i] = b[i] \/ a[i] = UpperOf(b[i])

\* w in every mix of upper and lower case
CaseVariants(w) ==
  { v \in [DOMAIN w -> { w[i] : i \in DOMAIN w } \cup { UpperOf(w[i]) : i \in DOMAIN w }] :
      SameButCase(v, w) }

\* whitespace around the value, left and right
Pads == { << >>, << " " >>, << "\t", " " >>, << "\n" >> }

TruthInit ==
  /\ InitAt(0)
  /\ resp = NoResp /\ snap = NoSnap /\ wlog = << >> /\ proj = NoProj
  /\ \E w \in Words : \E c \in CaseVariants(w) : \E lp \in Pads, rp \in Pads :
       truth = [pc |-> "value", lpad |-> lp, core |-> c, rpad |-> rp, out |-> FALSE]

\* line 192: mr_truth(x["mustReview"])
MrTruth ==
  /\ truth.pc = "value"
  /\ truth' = [truth EXCEPT !.pc = "done",
                            !.out = mr_truth(truth.lpad \o truth.core \o truth.rpad)]
  /\ UNCHANGED << pgvars, resp, snap, wlog, proj >>

TruthNext == MrTruth

TruthSpec == TruthInit /\ [][TruthNext]_vars

\* C16: mr_truth(v) is true exactly when v, trimmed of the whitespace around
\* it and but for the case of its letters, is one of U+662F, true, 1, y,
\* yes: true for U+662F, TRUE, 1, Yes; false for U+5426, the empty string,
\* 0, no and every other value.
C16_TruthWordsOnly ==
  truth.pc = "done" =>
    /\ truth.out = (\E w \in TruthWords : SameButCase(truth.core, w))
    /\ truth.core \in { << "U+662F" >>, << "T", "R", "U", "E" >>, << "1" >>,
                        << "Y", "e", "s" >> } => truth.out
    /\ truth.core \in { << "U+5426" >>, << >>, << "0" >>, << "n", "o" >> } => ~truth.out

\* " Yes\n" has been found true
C16_Witness ==
  /\ truth.pc = "done"
  /\ truth.lpad = << " " >> /\ truth.core = << "Y", "e", "s" >> /\ truth.rpad = << "\n" >>
  /\ truth.out

\* ------------------------------------------------------------- api_state_get
\* tasks.must_review as seeded (lines 77-81)
MustReview ==
  [i \in TaskIds |-> IF i \in {3, 5} THEN << "U+662F" >> ELSE << "U+5426" >>]

\* `ORDER BY t.id`: the ids of tasks in ascending order
RECURSIVE Ascending(_)
Ascending(ids) ==
  IF ids = {} THEN << >>
  ELSE LET m == CHOOSE x \in ids : \A y \in ids : x <= y
       IN << m >> \o Ascending(ids \ {m})

OrderById == Ascending(TaskIds)

\* the SELECT of lines 174-181: every row of tasks, LEFT JOINed with the
\* row of task_state of that task and date (the primary key (date, task_id)
\* allows one at most); COALESCE turns the NULLs of a task without a row
\* into 0
SelectState(rs, date) ==
  [i \in DOMAIN OrderById |->
     LET tid == OrderById[i]
         k == << date, tid >>
     IN [id |-> tid, mr |-> MustReview[tid],
         comp |-> IF k \in DOMAIN rs THEN rs[k].completed ELSE 0,
         rev  |-> IF k \in DOMAIN rs THEN rs[k].reviewed ELSE 0]]

\* lines 184-185: bool(comp), bool(rev)
StateList(fetched) ==
  [i \in DOMAIN fetched |->
     [id |-> fetched[i].id, mustReview |-> fetched[i].mr,
      completed |-> fetched[i].comp # 0, reviewed |-> fetched[i].rev # 0]]

\* lines 189-192: the sums of stats
\* (UndoneUnreviewed: a faulty variant of undone that leaves out the tasks
\* reviewed before they are completed)
DoneReviewed(lst) ==
  Cardinality({ i \in DOMAIN lst : lst[i].completed /\ lst[i].reviewed })
DoneUnreviewed(lst) ==
  Cardinality({ i \in DOMAIN lst : lst[i].completed /\ ~lst[i].reviewed })
UndoneUnreviewed(lst) ==
  Cardinality({ i \in DOMAIN lst : ~lst[i].completed /\ ~lst[i].reviewed })
Undone(lst) ==
  Cardinality({ i \in DOMAIN lst : ~lst[i].completed })
MustReviewUndone(lst) ==
  Cardinality({ i \in DOMAIN lst :
                  mr_truth(lst[i].mustReview) /\ ~lst[i].completed /\ ~lst[i].reviewed })

\* lines 187-193
Stats(lst) ==
  [total |-> Len(lst),
   doneReviewed |-> DoneReviewed(lst),
   doneUnreviewed |-> DoneUnreviewed(lst),
   undone |-> Undone(lst),
   mustReviewUndone |-> MustReviewUndone(lst)]

\* lines 170-194: the answer to GET /api/state for a date
api_state_get(rs, date) ==
  LET lst == StateList(SelectState(rs, date))
  IN [date |-> date, list |-> lst, stats |-> Stats(lst)]

\* the date and the list of that answer, without the stats
DateAndList(rs, date) == [date |-> date, list |-> StateList(SelectState(rs, date))]

\* ---- the status store on its own: nobody listens
\* the bodies posted: two dates (none, which is today, and the seeded day),
\* tasks with must_review yes (3, 5) and no (1), every status, a task_id
\* that is missing (0) and one that no task has (7)
StoreRequests ==
  { [date |-> "",           task_id |-> 3, completed |-> TRUE,  reviewed |-> FALSE],
    [date |-> "",           task_id |-> 3, completed |-> TRUE,  reviewed |-> TRUE],
    [date |-> "2025-01-01", task_id |-> 5, completed |-> FALSE, reviewed |-> TRUE],
    [date |-> "2025-01-01", task_id |-> 1, completed |-> TRUE,  reviewed |-> FALSE],
    [date |-> "2024-08-06", task_id |-> 3, completed |-> TRUE,  reviewed |-> TRUE],
    [date |-> "2024-08-06", task_id |-> 5, completed |-> FALSE, reviewed |-> TRUE],
    [date |-> "",           task_id |-> 0, completed |-> TRUE,  reviewed |-> TRUE],
    [date |-> "2024-08-06", task_id |-> 7, completed |-> TRUE,  reviewed |-> TRUE] }

\* the ?date= of GET /api/state: none, today, the seeded day, a day without
\* any row
ReadArgs == { "", "2025-01-01", "2024-08-06", "2025-01-02" }

\* the write a request commits, as requested
Written(r) ==
  [date |-> ReqDate(r.date), task_id |-> r.task_id,
   completed |-> r.completed, reviewed |-> r.reviewed]

\* lines 168-194; the SELECT reads the store as committed at that moment
ApiStateGet(d) ==
  /\ snap' = api_state_get(rows, ReqDate(d))
  /\ UNCHANGED << pgvars, resp, wlog, proj, truth >>

StoreNext ==
  \/ \E t \in Threads, r \in StoreRequests : PostReject(t, r) /\ UNCHANGED xvars
  \/ \E t \in Threads, r \in StoreRequests :
       /\ PostWrite(t, r)
       /\ wlog' = Append(wlog, Written(r))
       /\ UNCHANGED << resp, snap, proj, truth >>
  \/ \E t \in Threads : PostMkEv(t) /\ UNCHANGED xvars
  \/ \E t \in Threads : BcAcquire(t) /\ UNCHANGED xvars
  \/ \E t \in Threads : BcFinish(t) /\ UNCHANGED xvars
  \/ \E d \in ReadArgs : ApiStateGet(d)

\* the clock stands at its last value: seq plays no part in the store
StoreSpec == InitLate /\ [][StoreNext]_vars

\* the dates GET /api/state is answered for
ReadDates == { ReqDate(d) : d \in ReadArgs }

\* the writes of log to (D, tid)
WritesTo(log, D, tid) ==
  { i \in DOMAIN log : log[i].date = D /\ log[i].task_id = tid }

\* << completed, reviewed >> of the most recently committed write to
\* (D, tid): the last one of log, else the row seed_if_empty wrote, else
\* << FALSE, FALSE >>
LatestStatus(log, D, tid) ==
  IF WritesTo(log, D, tid) # {}
    THEN LET i == CHOOSE i \in WritesTo(log, D, tid) :
                    \A j \in WritesTo(log, D, tid) : j <= i
         IN << log[i].completed, log[i].reviewed >>
    ELSE IF << D, tid >> \in DOMAIN SeedRows
      THEN << SeedRows[<< D, tid >>].completed = 1, SeedRows[<< D, tid >>].reviewed = 1 >>
      ELSE << FALSE, FALSE >>

\* the snapshot sn has one entry per task, each with the latest status
SnapshotOk(sn, log) ==
  /\ \A tid \in TaskIds :
       Cardinality({ i \in DOMAIN sn.list : sn.list[i].id = tid }) = 1
  /\ \A i \in DOMAIN sn.list :
       /\ sn.list[i].id \in TaskIds
       /\ << sn.list[i].completed, sn.list[i].reviewed >>
            = LatestStatus(log, sn.date, sn.list[i].id)

\* C11: upsert with default.  At every moment the snapshot for a date D has
\* exactly one entry per task, whose (completed, reviewed) are those of the
\* most recently committed write to (D, task) (the rows seed_if_empty wrote
\* count as writes), or (false, false) when there was none; so has every
\* snapshot api_state_get answers; a write to (D, task) leaves the status
\* of every other date and every other task as it was.
C11_UpsertWithDefault ==
  /\ [](\A D \in ReadDates : SnapshotOk(DateAndList(rows, D), wlog))
  /\ [][snap' # snap => SnapshotOk(snap', wlog)]_vars
  /\ [][Len(wlog') > Len(wlog) =>
          LET w == wlog'[Len(wlog')]
          IN \A D \in ReadDates :
               LET before == DateAndList(rows, D).list
                   after  == DateAndList(rows', D).list
               IN \A i \in DOMAIN after :
                    (D # w.date \/ after[i].id # w.task_id) => after[i] = before[i]]_vars

\* two requests wrote different statuses to the same (date, task); the
\* snapshot read since shows the later one, and (false, false) for a task
\* never written on that date
C11_Witness ==
  /\ snap # NoSnap
  /\ \E i, j \in DOMAIN wlog :
       /\ i < j /\ j = Len(wlog)
       /\ wlog[i].date = snap.date /\ wlog[j].date = snap.date
       /\ wlog[i].task_id = wlog[j].task_id
       /\ wlog[i].reviewed # wlog[j].reviewed
       /\ \E k \in DOMAIN snap.list :
            /\ snap.list[k].id = wlog[j].task_id
            /\ snap.list[k].reviewed = wlog[j].reviewed
  /\ \E k \in DOMAIN snap.list :
       /\ WritesTo(wlog, snap.date, snap.list[k].id) = {}
       /\ ~snap.list[k].completed /\ ~snap.list[k].reviewed

\* C19: in every snapshot api_state_get answers the statistics partition
\* the task list: doneReviewed + doneUnreviewed + undone = total = the
\* number of tasks; mustReviewUndone counts the tasks whose mustReview is
\* truthy and that are neither completed nor reviewed, so it is at most
\* undone.
C19_StatsPartition ==
  snap # NoSnap =>
    /\ snap.stats.doneReviewed + snap.stats.doneUnreviewed + snap.stats.undone
         = snap.stats.total
    /\ snap.stats.total = Cardinality(TaskIds)
    /\ snap.stats.mustReviewUndone =
         Cardinality({ tid \in TaskIds :
           \E i \in DOMAIN snap.list :
             /\ snap.list[i].id = tid
             /\ mr_truth(snap.list[i].mustReview)
             /\ ~snap.list[i].completed /\ ~snap.list[i].reviewed })
    /\ snap.stats.mustReviewUndone <= snap.stats.undone

\* a snapshot with tasks of every kind: done and reviewed, done and not
\* reviewed, reviewed but not done, and a must-review task untouched
C19_Witness ==
  /\ snap # NoSnap
  /\ snap.stats.doneReviewed > 0 /\ snap.stats.doneUnreviewed > 0
  /\ snap.stats.mustReviewUndone > 0
  /\ snap.stats.undone > snap.stats.mustReviewUndone
  /\ \E i \in DOMAIN snap.list : ~snap.list[i].completed /\ snap.list[i].reviewed

\* ------------------------------------------------------------- answers of api_state_post
\* the status of the answer to a rejected request: 400 (line 202) for a
\* falsy task_id, 404 (line 210) for a task_id that is not in tasks
RejectStatus(r) == IF Falsy(r.task_id) THEN 400 ELSE 404

\* PostReject, the answer recorded
PostRejectAnswer(t, r) ==
  /\ PostReject(t, r)
  /\ resp' = [n |-> nposts + 1, task_id |-> r.task_id, status |-> RejectStatus(r)]
  /\ UNCHANGED << snap, wlog, proj, truth >>

\* BcFinish, the answer {"ok": true} of line 222 recorded
BcFinishAnswer(t) ==
  /\ BcFinish(t)
  /\ resp' = [n |-> pev[t].wid, task_id |-> preq[t].task_id, status |-> 200]
  /\ UNCHANGED << snap, wlog, proj, truth >>

\* the handlers of Next, the answers of api_state_post recorded
AnsNext ==
  \/ \E t \in Threads, r \in Requests : PostRejectAnswer(t, r)
  \/ \E t \in Threads, r \in Requests : PostWrite(t, r) /\ UNCHANGED xvars
  \/ \E t \in Threads : PostMkEv(t) /\ UNCHANGED xvars
  \/ \E t \in Threads : BcAcquire(t) /\ UNCHANGED xvars
  \/ \E t \in Threads, l \in Listeners : BcPut(t, l) /\ UNCHANGED xvars
  \/ \E t \in Threads : BcFinishAnswer(t)
  \/ \E l \in Listeners : SseRegister(l) /\ UNCHANGED xvars
  \/ \E l \in Listeners : GenGreet(l) /\ UNCHANGED xvars
  \/ \E l \in Listeners : GenCloseAtGreet(l) /\ UNCHANGED xvars
  \/ \E l \in Listeners : GenGet(l) /\ UNCHANGED xvars
  \/ \E l \in Listeners : GenExit(l) /\ UNCHANGED xvars
  \/ \E l \in Listeners : GenFinally(l) /\ UNCHANGED xvars
  \/ \E l \in Listeners : ClientClose(l) /\ UNCHANGED xvars

\* the clock stands at its last value: seq plays no part in an answer
AnsSpec == InitLate /\ [][AnsNext]_vars

\* C12: every row of task_state references a task of tasks; a request for
\* a task_id no task has is answered 404 and no row of that task_id is in
\* the store.
C12_RowsReferenceTasks ==
  /\ \A k \in DOMAIN rows : k[2] \in TaskIds
  /\ (resp.n > 0 /\ resp.task_id # 0 /\ resp.task_id \notin TaskIds) =>
       /\ resp.status = 404
       /\ \A k \in DOMAIN rows : k[2] # resp.task_id

\* the request for task 7 was answered 404 after another request had
\* written a row
C12_Witness ==
  /\ resp.status = 404 /\ resp.task_id = 7
  /\ rows # SeedRows

\* C18: a rejected request changes nothing.  A request whose task_id is
\* missing or falsy (0) is answered 400, one whose task_id no task has 404,
\* every other one 200; the step that answers 400 or 404 leaves the store,
\* every listener queue and the registry as they were.
C18_RejectedChangesNothing ==
  /\ [](resp.n > 0 =>
          /\ resp.task_id = 0 => resp.status = 400
          /\ (resp.task_id # 0 /\ resp.task_id \notin TaskIds) => resp.status = 404
          /\ resp.task_id \in TaskIds => resp.status = 200)
  /\ [][(resp'.n # resp.n /\ resp'.status \in {400, 404}) =>
          /\ rows' = rows
          /\ queue' = queue
          /\ listeners' = listeners
          /\ rowWid' = rowWid /\ npub' = npub]_vars

\* a request was answered 400 while a listener was registered with an
\* event in its queue and a row had been written
C18_Witness ==
  /\ resp.status = 400
  /\ rows # SeedRows
  /\ \E l \in listeners : queue[l] # << >>

\* ------------------------------------------------------------- concurrent writers of one row
\* two bodies for the same (date, task_id) with different statuses
ConvRequests ==
  { [date |-> "2025-01-01", task_id |-> 3, completed |-> TRUE, reviewed |-> FALSE],
    [date |-> "2025-01-01", task_id |-> 3, completed |-> TRUE, reviewed |-> TRUE] }

\* the handlers of Next, every request one of ConvRequests (none is
\* rejected)
ConvNext ==
  \/ \E t \in Threads, r \in ConvRequests : PostWrite(t, r) /\ UNCHANGED xvars
  \/ \E t \in Threads : PostMkEv(t) /\ UNCHANGED xvars
  \/ \E t \in Threads : BcAcquire(t) /\ UNCHANGED xvars
  \/ \E t \in Threads, l \in Listeners : BcPut(t, l) /\ UNCHANGED xvars
  \/ \E t \in Threads : BcFinish(t) /\ UNCHANGED xvars
  \/ \E l \in Listeners : SseRegister(l) /\ UNCHANGED xvars
  \/ \E l \in Listeners : GenGreet(l) /\ UNCHANGED xvars
  \/ \E l \in Listeners : GenCloseAtGreet(l) /\ UNCHANGED xvars
  \/ \E l \in Listeners : GenGet(l) /\ UNCHANGED xvars
  \/ \E l \in Listeners : GenExit(l) /\ UNCHANGED xvars
  \/ \E l \in Listeners : GenFinally(l) /\ UNCHANGED xvars
  \/ \E l \in Listeners : ClientClose(l) /\ UNCHANGED xvars

\* the clock stands at its last value: the claim is about the order of
\* commits and publishes, whatever seq reads
ConvSpec == InitLate /\ [][ConvNext]_vars

\* C17: the delta stream converges to the store under concurrent writers.
\* Once every request has been answered and no event was dropped, the last
\* event a listener registered from the start was handed for a key carries
\* the (completed, reviewed) of the row the store holds for that key.
C17_LastEventMatchesStore ==
  \A l \in Listeners :
    ( /\ \A t \in Threads : ppc[t] = "idle"
      /\ dropped = {}
      /\ regAt[l] = 0 /\ deregAt[l] = -1
      /\ received(l) # << >> ) =>
      LET e == received(l)[Len(received(l))]
      IN rows[<< e.date, e.task_id >>] = [completed |-> e.completed, reviewed |-> e.reviewed]

====
